---- MODULE Spec2Model ----
(***************************************************************************)
(* The interactive fuzzy finder of src/fuzzy_finder.rs: the FuzzyFinder    *)
(* fields, the key dispatch of FuzzyFinder::run, the terminal guards that  *)
(* run acquires (termion raw mode + alternate screen) and the three ways   *)
(* a session ends (return, process::exit, panic).                          *)
(*                                                                         *)
(* Strings are sequences of characters (one-character TLA+ strings); the   *)
(* query is a Rust String, so cursor_pos and query.len() are BYTE offsets. *)
(* Indices are 0-based as in the source; At0 reads a sequence 0-based.     *)
(***************************************************************************)
EXTENDS Integers, Sequences, FiniteSets, TLC

VARIABLES
    items,            \* FuzzyFinder.items
    filtered_items,   \* FuzzyFinder.filtered_items
    query,            \* FuzzyFinder.query (sequence of characters)
    cursor_pos,       \* FuzzyFinder.cursor_pos (byte offset into query)
    selected_index,   \* FuzzyFinder.selected_index
    scroll_offset,    \* FuzzyFinder.scroll_offset
    pc,               \* where the caller / run() is
    result,           \* what run() handed to its caller in this session
    raw_mode,         \* the tty is in raw mode
    alt_screen,       \* the tty shows the alternate screen
    raw_restored,     \* times the saved termios was restored in this session
    main_screen,      \* times ToMainScreen was written in this session
    height,           \* terminal height read by the latest render
    key,              \* the key event run() dispatched last ("none": none yet)
    frame,            \* what the latest render drew, or how it failed
    overflow_checks,  \* the build panics on integer overflow (debug profile)
    formatted,        \* the latest call of format_repository and its result
    since_render      \* 10 ms ticks since last_render was taken

vars == <<items, filtered_items, query, cursor_pos, selected_index,
          scroll_offset, pc, result, raw_mode, alt_screen, raw_restored,
          main_screen, height, key, frame, overflow_checks, formatted,
          since_render>>

finder == <<items, filtered_items, query, cursor_pos, selected_index,
            scroll_offset>>

terminal == <<raw_mode, alt_screen, raw_restored, main_screen>>

(* what no action of the finder changes *)
outside == <<overflow_checks, formatted>>

----------------------------------------------------------------------------
(* Bounds of the model.                                                    *)

MaxQueryLen == 3      \* characters typed into the query
MaxClock == 12        \* the clock stops counting here (ticks of 10 ms)

(* Program constants.                                                      *)

max_display == 10     \* let max_display = 10
render_interval == 10 \* Duration::from_millis(100), in 10 ms ticks
sleep_ticks == 1      \* thread::sleep(Duration::from_millis(10))
FallbackHeight == 24  \* terminal_size().unwrap_or((80, 24))
FallbackWidth == 80   \* terminal_size().unwrap_or((80, 24))

----------------------------------------------------------------------------
(* Inputs.                                                                 *)

MultiByte == "U+00E9"                 \* a character of two UTF-8 bytes
KeyChars == {"a", "l", "p", MultiByte}

Alpha == <<"a", "l", "p", "h", "a">>
Alphabet == <<"a", "l", "p", "h", "a", "b", "e", "t">>
Beta == <<"b", "e", "t", "a">>
Repos3 == <<Alpha, Alphabet, Beta>>

(* twenty repositories, none longer than two characters *)
Twenty ==
    << <<"a">>, <<"b">>, <<"e">>, <<"h">>, <<"l">>, <<"p">>, <<"t">>,
       <<"a", "a">>, <<"a", "b">>, <<"a", "l">>, <<"a", "p">>, <<"b", "a">>,
       <<"b", "e">>, <<"e", "t">>, <<"h", "a">>, <<"l", "a">>, <<"l", "p">>,
       <<"p", "a">>, <<"p", "h">>, <<"t", "a">> >>

LongList ==
    << <<"a">>, <<"a", "l">>, <<"a", "p">>, <<"l", "a">>, <<"p", "a">>,
       <<"a", "l", "p">>, <<"b", "a">>, <<"a", "b">>, <<"p", "a", "l">>,
       <<"l", "a", "p">>, <<"a", "a">>, <<"b">> >>

ItemLists == {<< >>, Repos3, LongList}

Heights == {8, FallbackHeight}

(* terminal_size(): <<width, height>>.  Sizes are the ones the sessions of *)
(* Spec and SpecTimed see; SmallSizes adds terminals too small for the     *)
(* layout and widths that make render truncate.                            *)
Sizes == {<<FallbackWidth, h>> : h \in Heights}

SmallSizes == {5, 7, 8, 9, FallbackWidth} \X {2, 4, 8, FallbackHeight}

Ellipsis == "U+2026"

----------------------------------------------------------------------------
(* Helpers.                                                                *)

At0(s, i) == s[i + 1]

Range(s) == {s[i] : i \in 1..Len(s)}

Max(a, b) == IF a >= b THEN a ELSE b

Min(a, b) == IF a <= b THEN a ELSE b

None == [some |-> FALSE, text |-> << >>]

Some(t) == [some |-> TRUE, text |-> t]

(* char::len_utf8 *)
Utf8Len(c) == IF c = MultiByte THEN 2 ELSE 1

(* byte offset of the n-th character boundary of q *)
RECURSIVE ByteOffset(_, _)
ByteOffset(q, n) == IF n = 0 THEN 0 ELSE ByteOffset(q, n - 1) + Utf8Len(q[n])

(* String::len: the length in bytes *)
ByteLen(q) == ByteOffset(q, Len(q))

(* str::is_char_boundary *)
IsCharBoundary(q, i) == \E n \in 0..Len(q) : ByteOffset(q, n) = i

(* number of characters in front of the boundary i *)
CharsBefore(q, i) == CHOOSE n \in 0..Len(q) : ByteOffset(q, n) = i

(* String::insert panics unless idx is a char boundary *)
InsertPanics(q, i) == ~IsCharBoundary(q, i)

StringInsert(q, i, c) ==
    LET n == CharsBefore(q, i)
    IN  SubSeq(q, 1, n) \o <<c>> \o SubSeq(q, n + 1, Len(q))

(* String::remove panics if idx >= len or idx is not a char boundary *)
RemovePanics(q, i) == i >= ByteLen(q) \/ ~IsCharBoundary(q, i)

StringRemove(q, i) ==
    LET n == CharsBefore(q, i)
    IN  SubSeq(q, 1, n) \o SubSeq(q, n + 2, Len(q))

----------------------------------------------------------------------------
(* crate::filter::filter_human, the Matcher: the items that contain the    *)
(* characters of the query in order, in their original relative order.     *)

RECURSIVE IsSubsequence(_, _)
IsSubsequence(q, item) ==
    IF q = << >> THEN TRUE
    ELSE IF item = << >> THEN FALSE
    ELSE IF Head(q) = Head(item) THEN IsSubsequence(Tail(q), Tail(item))
    ELSE IsSubsequence(q, Tail(item))

filter_human(its, q) == SelectSeq(its, LAMBDA it : IsSubsequence(q, it))

----------------------------------------------------------------------------
(* FuzzyFinder::update_filter, as a function of the fields it reads.       *)

(* update_filter without the reset of an out-of-bounds selection *)
update_filter_noclamp(its, q, sel, off) ==
    LET f == filter_human(its, q)
        off1 == IF sel < off THEN sel
                ELSE IF sel >= off + max_display THEN sel - max_display + 1
                ELSE off
    IN  [filtered_items |-> f, selected_index |-> sel, scroll_offset |-> off1]

(* update_filter resetting an out-of-bounds selection to the first item *)
update_filter_clamp0(its, q, sel, off) ==
    LET f == filter_human(its, q)
        sel1 == IF sel >= Len(f) THEN 0 ELSE sel
        off1 == IF sel1 < off THEN sel1
                ELSE IF sel1 >= off + max_display THEN sel1 - max_display + 1
                ELSE off
    IN  [filtered_items |-> f, selected_index |-> sel1, scroll_offset |-> off1]

update_filter(its, q, sel, off) ==
    LET f == filter_human(its, q)
        sel1 == IF sel >= Len(f)
                THEN (IF f = << >> THEN 0 ELSE Len(f) - 1)
                ELSE sel
        off1 == IF sel1 < off THEN sel1
                ELSE IF sel1 >= off + max_display THEN sel1 - max_display + 1
                ELSE off
    IN  [filtered_items |-> f, selected_index |-> sel1, scroll_offset |-> off1]

(* FuzzyFinder::move_cursor_up *)
move_cursor_up_stay(f, sel, off) ==
    IF f # << >> /\ sel > 0
    THEN [selected_index |-> sel - 1, scroll_offset |-> off]
    ELSE [selected_index |-> sel, scroll_offset |-> off]

move_cursor_up(f, sel, off) ==
    IF f # << >> /\ sel > 0
    THEN [selected_index |-> sel - 1,
          scroll_offset |-> IF sel - 1 < off THEN sel - 1 ELSE off]
    ELSE [selected_index |-> sel, scroll_offset |-> off]

move_cursor_down_late(f, sel, off) ==
    IF f # << >> /\ sel < Len(f) - 1
    THEN [selected_index |-> sel + 1,
          scroll_offset |-> IF sel + 1 > off + max_display
                            THEN sel + 1 - max_display ELSE off]
    ELSE [selected_index |-> sel, scroll_offset |-> off]

(* FuzzyFinder::move_cursor_down *)
move_cursor_down(f, sel, off) ==
    IF f # << >> /\ sel < Len(f) - 1
    THEN [selected_index |-> sel + 1,
          scroll_offset |-> IF sel + 1 >= off + max_display
                            THEN sel + 1 - max_display + 1 ELSE off]
    ELSE [selected_index |-> sel, scroll_offset |-> off]

----------------------------------------------------------------------------
(* FuzzyFinder::new: the state after construction, before run().           *)

NoFrame == [outcome |-> "none", w |-> 0, h |-> 0, first |-> 0, count |-> 0,
            texts |-> << >>, status_pos |-> 0]

NotFormatted == [name |-> << >>, description |-> << >>, is_fork |-> FALSE,
                 is_private |-> FALSE, source |-> "GitHub", out |-> << >>]

InitWith(lists) ==
    /\ items \in lists
    /\ filtered_items = items
    /\ query = << >>
    /\ cursor_pos = 0
    /\ selected_index = 0
    /\ scroll_offset = 0
    /\ pc = "idle"
    /\ result = None
    /\ raw_mode = FALSE
    /\ alt_screen = FALSE
    /\ raw_restored = 0
    /\ main_screen = 0
    /\ height = FallbackHeight
    /\ key = "none"
    /\ frame = NoFrame
    /\ overflow_checks \in BOOLEAN
    /\ formatted = NotFormatted
    /\ since_render = 0

Init == InitWith(ItemLists)

----------------------------------------------------------------------------
(* The terminal guards.  run() owns `screen`, an AlternateScreen wrapping  *)
(* a RawTerminal.  Dropping it (on return and while a panic unwinds) writes *)
(* ToMainScreen and then restores the saved termios.  process::exit runs   *)
(* no destructors.                                                         *)

(* drop(screen): AlternateScreen::drop, then RawTerminal::drop *)
DropScreen(written) ==
    /\ alt_screen' = FALSE
    /\ main_screen' = main_screen + written + 1
    /\ raw_mode' = FALSE
    /\ raw_restored' = raw_restored + 1

(* a failed unwrap(): the panic unwinds through run() and drops screen *)
Panic ==
    /\ pc' = "panicked"
    /\ DropScreen(0)
    /\ UNCHANGED frame

----------------------------------------------------------------------------
(* FuzzyFinder::render, as a function of the fields and the terminal size  *)
(* it reads.  The sizes are usize: a subtraction below zero panics in a    *)
(* build with overflow checks and wraps around in a build without.         *)

(* usize::MAX + 1; it stands at 2^30 here, far above every length *)
UsizeModulus == 1073741824

WrappingSub(a, b) == IF a >= b THEN a - b ELSE UsizeModulus + a - b

(* the loop that copies the characters of an item while char_count < limit *)
RECURSIVE Truncated(_, _, _)
Truncated(item, limit, acc) ==
    IF item = << >> \/ Len(acc) >= limit
    THEN acc
    ELSE Truncated(Tail(item), limit, Append(acc, Head(item)))

display_text_wide(item, available_width) ==
    IF Len(item) > available_width
    THEN Append(Truncated(item, available_width, << >>), Ellipsis)
    ELSE item

(* display_text for one item and the available width *)
display_text(item, available_width) ==
    IF Len(item) > available_width
    THEN Append(Truncated(item, WrappingSub(available_width, 1), << >>), Ellipsis)
    ELSE item

(* the length of format!("{}", n) *)
DigitCount(n) == IF n < 10 THEN 1 ELSE IF n < 100 THEN 2 ELSE 3

render(f, its, off, q, size, checked) ==
    LET width == size[1]
        h == size[2]
        available_lines == WrappingSub(h, 3)
        display_count == Min(available_lines, Len(f))
        end_idx == Min(off + display_count, Len(f))
        display_items_count == WrappingSub(end_idx, off)
        available_width == WrappingSub(width, 7)
        status_pos == IF h > 5 THEN h - 5 ELSE 1
        count_len == DigitCount(Len(f)) + 1 + DigitCount(Len(its))
        query_width == WrappingSub(width, 2)
        start_pos == ByteLen(q) - query_width + 1
        overflows ==
            \/ h < 3
            \/ end_idx < off
            \/ end_idx > off /\ width < 7
            \/ \E i \in (off + 1)..end_idx :
                   Len(f[i]) > available_width /\ available_width = 0
            \/ width < 2
        (* "-".repeat(n) of a wrapped n: capacity overflow in every build *)
        repeat_panics == width < count_len + 1
        (* &self.query[start_pos..] off a char boundary *)
        slice_panics ==
            /\ q # << >>
            /\ ByteLen(q) > query_width
            /\ ~IsCharBoundary(q, start_pos)
    IN  IF (checked /\ overflows) \/ repeat_panics \/ slice_panics
        THEN [outcome |-> "panic", w |-> width, h |-> h, first |-> 0,
              count |-> 0, texts |-> << >>, status_pos |-> 0]
        ELSE [outcome |-> "drawn", w |-> width, h |-> h, first |-> off,
              count |-> display_items_count,
              texts |-> [i \in 1..(end_idx - off) |->
                            display_text(f[off + i], available_width)],
              status_pos |-> status_pos]

(* self.render(&mut screen).unwrap() on the fields as they are after the   *)
(* arm: reads the terminal size, draws the frame; a failed write and a     *)
(* panic inside render both unwind.  cont is where run() goes on.          *)
Rerender(size, ok, cont) ==
    LET r == render(filtered_items', items', scroll_offset', query', size,
                    overflow_checks)
    IN  IF r.outcome = "panic"
        THEN /\ pc' = "panicked"
             /\ DropScreen(0)
             /\ frame' = r
             /\ UNCHANGED <<height, result>>
        ELSE IF ok
        THEN /\ height' = size[2]
             /\ frame' = r
             /\ pc' = cont
             /\ UNCHANGED <<terminal, result>>
        ELSE /\ Panic
             /\ UNCHANGED <<height, result>>

(* Terminal setup and the initial render of run().  setup says how far the *)
(* setup gets: into_raw_mode fails, into_alternate_screen fails (the       *)
(* RawTerminal it took is dropped), or both succeed.                       *)
Setup(size, setup, ok, cont) ==
    /\ pc \in {"idle", "returned"}
    /\ UNCHANGED finder
    /\ result' = None
    /\ key' = "none"
    /\ IF setup = "raw_fails"
       THEN /\ pc' = "setup_failed"
            /\ raw_restored' = 0
            /\ main_screen' = 0
            /\ UNCHANGED <<raw_mode, alt_screen, height, frame>>
       ELSE IF setup = "alt_fails"
       THEN /\ pc' = "setup_failed"
            /\ raw_restored' = 1
            /\ main_screen' = 0
            /\ UNCHANGED <<raw_mode, alt_screen, height, frame>>
       ELSE LET r == render(filtered_items, items, scroll_offset, query, size,
                            overflow_checks)
            IN  IF r.outcome = "drawn" /\ ok
                THEN /\ pc' = cont
                     /\ raw_mode' = TRUE
                     /\ alt_screen' = TRUE
                     /\ raw_restored' = 0
                     /\ main_screen' = 0
                     /\ height' = size[2]
                     /\ frame' = r
                ELSE /\ pc' = "panicked"
                     /\ raw_mode' = FALSE
                     /\ alt_screen' = FALSE
                     /\ raw_restored' = 1
                     /\ main_screen' = 1
                     /\ frame' = IF r.outcome = "panic" THEN r ELSE frame
                     /\ UNCHANGED height

----------------------------------------------------------------------------
(* The arms of `match key` in run(), each followed by the re-render of     *)
(* line 393.  size is the terminal size that render reads, ok whether its writes     *)
(* succeed, cont where the loop goes on.                                   *)

(* the confirm arm returning the first item of the view *)
ArmEnter_newline(size, cleanup_ok, ok, cont) ==
    /\ key' = "Enter"
    /\ UNCHANGED <<items, filtered_items, selected_index, scroll_offset>>
    /\ IF filtered_items # << >>
       THEN /\ UNCHANGED <<query, cursor_pos>>
            /\ IF cleanup_ok
               THEN /\ result' = Some(At0(filtered_items, selected_index))
                    /\ pc' = "returned"
                    /\ DropScreen(1)
                    /\ UNCHANGED <<height, frame>>
               ELSE /\ Panic
                    /\ UNCHANGED <<height, result>>
       ELSE /\ query' = Append(query, "\n")
            /\ cursor_pos' = cursor_pos + 1
            /\ Rerender(size, ok, cont)

ArmEnter_first(size, cleanup_ok, ok, cont) ==
    /\ key' = "Enter"
    /\ UNCHANGED finder
    /\ IF filtered_items # << >>
       THEN IF cleanup_ok
            THEN /\ result' = Some(At0(filtered_items, 0))
                 /\ pc' = "returned"
                 /\ DropScreen(1)
                 /\ UNCHANGED <<height, frame>>
            ELSE /\ Panic
                 /\ UNCHANGED <<height, result>>
       ELSE Rerender(size, ok, cont)

(* Key::Char('\n') | Key::Char('\r') *)
ArmEnter(size, cleanup_ok, ok, cont) ==
    /\ key' = "Enter"
    /\ UNCHANGED finder
    /\ IF filtered_items # << >>
       THEN IF cleanup_ok
            THEN /\ result' = Some(At0(filtered_items, selected_index))
                 /\ pc' = "returned"
                 /\ DropScreen(1)
                 /\ UNCHANGED <<height, frame>>
            ELSE /\ Panic
                 /\ UNCHANGED <<height, result>>
       ELSE Rerender(size, ok, cont)

(* Key::Char(c) *)
ArmChar(c, size, ok, cont) ==
    /\ Len(query) < MaxQueryLen
    /\ key' = "Char"
    /\ IF InsertPanics(query, cursor_pos)
       THEN /\ Panic
            /\ UNCHANGED <<finder, height, result>>
       ELSE LET q == StringInsert(query, cursor_pos, c)
                u == update_filter(items, q, selected_index, scroll_offset)
            IN  /\ query' = q
                /\ cursor_pos' = cursor_pos + 1
                /\ filtered_items' = u.filtered_items
                /\ selected_index' = u.selected_index
                /\ scroll_offset' = u.scroll_offset
                /\ items' = items
                /\ Rerender(size, ok, cont)

(* Key::Backspace *)
ArmBackspace(size, ok, cont) ==
    /\ key' = "Backspace"
    /\ IF query # << >> /\ cursor_pos > 0
       THEN IF RemovePanics(query, cursor_pos - 1)
            THEN /\ Panic
                 /\ UNCHANGED <<finder, height, result>>
            ELSE LET q == StringRemove(query, cursor_pos - 1)
                     u == update_filter(items, q, selected_index, scroll_offset)
                 IN  /\ query' = q
                     /\ cursor_pos' = cursor_pos - 1
                     /\ filtered_items' = u.filtered_items
                     /\ selected_index' = u.selected_index
                     /\ scroll_offset' = u.scroll_offset
                     /\ items' = items
                     /\ Rerender(size, ok, cont)
       ELSE /\ UNCHANGED finder
            /\ Rerender(size, ok, cont)

(* Key::Delete *)
ArmDelete(size, ok, cont) ==
    /\ key' = "Delete"
    /\ IF query # << >> /\ cursor_pos < ByteLen(query)
       THEN IF RemovePanics(query, cursor_pos)
            THEN /\ Panic
                 /\ UNCHANGED <<finder, height, result>>
            ELSE LET q == StringRemove(query, cursor_pos)
                     u == update_filter(items, q, selected_index, scroll_offset)
                 IN  /\ query' = q
                     /\ filtered_items' = u.filtered_items
                     /\ selected_index' = u.selected_index
                     /\ scroll_offset' = u.scroll_offset
                     /\ UNCHANGED <<items, cursor_pos>>
                     /\ Rerender(size, ok, cont)
       ELSE /\ UNCHANGED finder
            /\ Rerender(size, ok, cont)

(* Key::Up *)
ArmUp(size, ok, cont) ==
    /\ key' = "Up"
    /\ LET m == move_cursor_up(filtered_items, selected_index, scroll_offset)
       IN  /\ selected_index' = m.selected_index
           /\ scroll_offset' = m.scroll_offset
           /\ UNCHANGED <<items, filtered_items, query, cursor_pos>>
           /\ Rerender(size, ok, cont)

(* Key::Down *)
ArmDown(size, ok, cont) ==
    /\ key' = "Down"
    /\ LET m == move_cursor_down(filtered_items, selected_index, scroll_offset)
       IN  /\ selected_index' = m.selected_index
           /\ scroll_offset' = m.scroll_offset
           /\ UNCHANGED <<items, filtered_items, query, cursor_pos>>
           /\ Rerender(size, ok, cont)

(* Key::Left *)
ArmLeft(size, ok, cont) ==
    /\ key' = "Left"
    /\ cursor_pos' = IF cursor_pos > 0 THEN cursor_pos - 1 ELSE cursor_pos
    /\ UNCHANGED <<items, filtered_items, query, selected_index, scroll_offset>>
    /\ Rerender(size, ok, cont)

(* Key::Right *)
ArmRight(size, ok, cont) ==
    /\ key' = "Right"
    /\ cursor_pos' = IF cursor_pos < ByteLen(query)
                     THEN cursor_pos + 1 ELSE cursor_pos
    /\ UNCHANGED <<items, filtered_items, query, selected_index, scroll_offset>>
    /\ Rerender(size, ok, cont)

ArmHome_top(size, ok, cont) ==
    /\ key' = "Home"
    /\ cursor_pos' = 0
    /\ selected_index' = 0
    /\ scroll_offset' = 0
    /\ UNCHANGED <<items, filtered_items, query>>
    /\ Rerender(size, ok, cont)

(* Key::Home *)
ArmHome(size, ok, cont) ==
    /\ key' = "Home"
    /\ cursor_pos' = 0
    /\ UNCHANGED <<items, filtered_items, query, selected_index, scroll_offset>>
    /\ Rerender(size, ok, cont)

(* Key::End *)
ArmEnd(size, ok, cont) ==
    /\ key' = "End"
    /\ cursor_pos' = ByteLen(query)
    /\ UNCHANGED <<items, filtered_items, query, selected_index, scroll_offset>>
    /\ Rerender(size, ok, cont)

(* Key::Ctrl('c') and Key::Esc: exit_program = cleanup_terminal, println,  *)
(* process::exit(0).  The process ends without dropping screen.            *)
exit_program_returns(cleanup_ok) ==
    IF cleanup_ok
    THEN /\ pc' = "returned"
         /\ DropScreen(1)
         /\ UNCHANGED frame
    ELSE Panic

exit_program(cleanup_ok) ==
    IF cleanup_ok
    THEN /\ pc' = "exited"
         /\ alt_screen' = FALSE
         /\ main_screen' = main_screen + 1
         /\ UNCHANGED <<raw_mode, raw_restored, frame>>
    ELSE Panic

ArmCancel(cleanup_ok) ==
    /\ key' = "Cancel"
    /\ exit_program(cleanup_ok)
    /\ UNCHANGED <<finder, height, result>>

(* _ => {} *)
ArmOther(size, ok, cont) ==
    /\ key' = "Other"
    /\ UNCHANGED finder
    /\ Rerender(size, ok, cont)

----------------------------------------------------------------------------
(* The session with time abstracted away: one action per call of the       *)
(* public interface and per key event, each taken as a whole.  While run() *)
(* executes it holds `&mut self`, so update_items can only be called       *)
(* before a session or between two sessions.                               *)

Running == pc = "running"

(* update_items storing the list without refreshing the filter *)
UpdateItems_stale ==
    /\ pc \in {"idle", "returned"}
    /\ \E new_items \in ItemLists : items' = new_items
    /\ key' = "none"
    /\ UNCHANGED <<filtered_items, selected_index, scroll_offset, query,
                   cursor_pos, pc, result, terminal, height, frame, outside,
                   since_render>>

UpdateItems_reset ==
    /\ pc \in {"idle", "returned"}
    /\ \E new_items \in ItemLists :
          LET u == update_filter(new_items, query, 0, 0)
          IN  /\ items' = new_items
              /\ filtered_items' = u.filtered_items
              /\ selected_index' = u.selected_index
              /\ scroll_offset' = u.scroll_offset
    /\ key' = "none"
    /\ UNCHANGED <<query, cursor_pos, pc, result, terminal, height, frame,
                   outside, since_render>>

(* FuzzyFinder::update_items *)
UpdateItems ==
    /\ pc \in {"idle", "returned"}
    /\ \E new_items \in ItemLists :
          LET u == update_filter(new_items, query, selected_index, scroll_offset)
          IN  /\ items' = new_items
              /\ filtered_items' = u.filtered_items
              /\ selected_index' = u.selected_index
              /\ scroll_offset' = u.scroll_offset
    /\ key' = "none"
    /\ UNCHANGED <<query, cursor_pos, pc, result, terminal, height, frame,
                   outside, since_render>>

(* FuzzyFinder::run up to the loop *)
Run ==
    /\ \E size \in Sizes, setup \in {"ok", "raw_fails", "alt_fails"}, ok \in BOOLEAN :
          Setup(size, setup, ok, "running")
    /\ UNCHANGED <<outside, since_render>>

(* the periodic re-render at the top of the loop *)
Refresh ==
    /\ Running
    /\ key' = "none"
    /\ UNCHANGED <<finder, outside, since_render>>
    /\ \E size \in Sizes, ok \in BOOLEAN : Rerender(size, ok, "running")

KeyEnter ==
    /\ Running
    /\ \E size \in Sizes, cleanup_ok \in BOOLEAN, ok \in BOOLEAN :
          ArmEnter(size, cleanup_ok, ok, "running")
    /\ UNCHANGED <<outside, since_render>>

KeyChar ==
    /\ Running
    /\ \E c \in KeyChars, size \in Sizes, ok \in BOOLEAN :
          ArmChar(c, size, ok, "running")
    /\ UNCHANGED <<outside, since_render>>

KeyBackspace ==
    /\ Running
    /\ \E size \in Sizes, ok \in BOOLEAN : ArmBackspace(size, ok, "running")
    /\ UNCHANGED <<outside, since_render>>

KeyDelete ==
    /\ Running
    /\ \E size \in Sizes, ok \in BOOLEAN : ArmDelete(size, ok, "running")
    /\ UNCHANGED <<outside, since_render>>

KeyUp ==
    /\ Running
    /\ \E size \in Sizes, ok \in BOOLEAN : ArmUp(size, ok, "running")
    /\ UNCHANGED <<outside, since_render>>

KeyDown ==
    /\ Running
    /\ \E size \in Sizes, ok \in BOOLEAN : ArmDown(size, ok, "running")
    /\ UNCHANGED <<outside, since_render>>

KeyLeft ==
    /\ Running
    /\ \E size \in Sizes, ok \in BOOLEAN : ArmLeft(size, ok, "running")
    /\ UNCHANGED <<outside, since_render>>

KeyRight ==
    /\ Running
    /\ \E size \in Sizes, ok \in BOOLEAN : ArmRight(size, ok, "running")
    /\ UNCHANGED <<outside, since_render>>

KeyHome ==
    /\ Running
    /\ \E size \in Sizes, ok \in BOOLEAN : ArmHome(size, ok, "running")
    /\ UNCHANGED <<outside, since_render>>

KeyEnd ==
    /\ Running
    /\ \E size \in Sizes, ok \in BOOLEAN : ArmEnd(size, ok, "running")
    /\ UNCHANGED <<outside, since_render>>

KeyCancel ==
    /\ Running
    /\ \E cleanup_ok \in BOOLEAN : ArmCancel(cleanup_ok)
    /\ UNCHANGED <<outside, since_render>>

KeyOther ==
    /\ Running
    /\ \E size \in Sizes, ok \in BOOLEAN : ArmOther(size, ok, "running")
    /\ UNCHANGED <<outside, since_render>>

Next ==
    \/ UpdateItems
    \/ Run
    \/ Refresh
    \/ KeyEnter
    \/ KeyChar
    \/ KeyBackspace
    \/ KeyDelete
    \/ KeyUp
    \/ KeyDown
    \/ KeyLeft
    \/ KeyRight
    \/ KeyHome
    \/ KeyEnd
    \/ KeyCancel
    \/ KeyOther

Spec == Init /\ [][Next]_vars

----------------------------------------------------------------------------
(* The loop of run() with its clock: the refresh timer, keys.next() and    *)
(* the sleep, one step each.  Time is counted in ticks of 10 ms and passes *)
(* only where the code waits: in thread::sleep and inside keys.next(),     *)
(* which reads the blocking stdin (Stdin::keys, not async_stdin) and so    *)
(* returns only when a key arrives or the input ends.                      *)

TimedKeys == {"Enter", "Up", "Down", "Cancel", "Other"}

Dispatch(k, size, cleanup_ok, ok, cont) ==
    CASE k = "Enter" -> ArmEnter(size, cleanup_ok, ok, cont)
      [] k = "Up" -> ArmUp(size, ok, cont)
      [] k = "Down" -> ArmDown(size, ok, cont)
      [] k = "Cancel" -> ArmCancel(cleanup_ok)
      [] k = "Other" -> ArmOther(size, ok, cont)

InLoop == pc \in {"loop_top", "poll", "sleep"}

(* run() up to the loop; last_render = Instant::now() *)
RunTimed ==
    /\ \E size \in Sizes, setup \in {"ok", "raw_fails", "alt_fails"}, ok \in BOOLEAN :
          Setup(size, setup, ok, "loop_top")
    /\ since_render' = 0
    /\ UNCHANGED outside

(* if now.duration_since(last_render) >= render_interval { render } *)
TimerCheck ==
    /\ pc = "loop_top"
    /\ key' = "none"
    /\ UNCHANGED <<finder, outside>>
    /\ IF since_render >= render_interval
       THEN /\ \E size \in Sizes, ok \in BOOLEAN : Rerender(size, ok, "poll")
            /\ since_render' = 0
       ELSE /\ pc' = "poll"
            /\ UNCHANGED <<terminal, result, height, frame, since_render>>

(* keys.next() has not returned: no key was pressed in this tick *)
PollBlocked ==
    /\ pc = "poll"
    /\ since_render < MaxClock
    /\ since_render' = since_render + 1
    /\ UNCHANGED <<finder, pc, result, terminal, height, key, frame, outside>>

(* keys.next() returns Some(Ok(key)): the arm of the key and the re-render *)
PollKey ==
    /\ pc = "poll"
    /\ \E k \in TimedKeys, size \in Sizes, cleanup_ok \in BOOLEAN, ok \in BOOLEAN :
          Dispatch(k, size, cleanup_ok, ok, "sleep")
    /\ UNCHANGED <<outside, since_render>>

(* keys.next() returns None or Some(Err(_)): the input has ended or failed *)
PollNone ==
    /\ pc = "poll"
    /\ pc' = "sleep"
    /\ UNCHANGED <<finder, result, terminal, height, key, frame, outside,
                   since_render>>

(* thread::sleep(Duration::from_millis(10)) *)
Sleep ==
    /\ pc = "sleep"
    /\ pc' = "loop_top"
    /\ since_render' = Min(since_render + sleep_ticks, MaxClock)
    /\ UNCHANGED <<finder, result, terminal, height, key, frame, outside>>

NextTimed ==
    \/ RunTimed
    \/ TimerCheck
    \/ PollBlocked
    \/ PollKey
    \/ PollNone
    \/ Sleep

SpecTimed == Init /\ [][NextTimed]_vars

----------------------------------------------------------------------------
(* Properties.                                                             *)

Ended == pc \in {"returned", "exited", "panicked"}

(* C1: on every path by which a started session ends (confirm, cancel, a   *)
(* failed render or write) the tty is out of raw mode and back on the main *)
(* screen.                                                                 *)
C1_TerminalRestoredOnExit == Ended => (~raw_mode /\ ~alt_screen)

(* C2: after every operation the selection is a valid index of the         *)
(* filtered view, and it is 0 when the view is empty.                      *)
C2_SelectionInBounds ==
    IF filtered_items = << >>
    THEN selected_index = 0
    ELSE selected_index \in 0..(Len(filtered_items) - 1)

(* a typed character shrank the view and the selection sits on its last row *)
C2_Witness ==
    /\ key = "Char"
    /\ filtered_items # << >>
    /\ Len(filtered_items) < Len(items)
    /\ selected_index = Len(filtered_items) - 1
    /\ selected_index > 0

(* C3: with a non-empty filtered view the selection lies inside the page   *)
(* of the current frame, whose size is max(H - 5, 0) for the terminal      *)
(* height H that the frame was drawn with.                                 *)
C3_SelectionInsidePage ==
    filtered_items # << >> =>
        /\ scroll_offset <= selected_index
        /\ selected_index < scroll_offset + Max(height - 5, 0)

(* C4: the filtered view is never stale: it equals the Matcher's answer    *)
(* for the current items and query after every operation.                  *)
C4_FilteredViewFresh == filtered_items = filter_human(items, query)

(* a list was pushed while a query was set and the view is a proper part   *)
C4_Witness ==
    /\ pc = "returned"
    /\ key = "none"
    /\ query # << >>
    /\ filtered_items # << >>
    /\ Len(filtered_items) < Len(items)

(* C5 as stated: a cancel event ends the session by returning control to   *)
(* the caller with the "no selection" result.                              *)
C5_CancelReturnsNoSelection ==
    [][(Running /\ key' = "Cancel" /\ pc' # "panicked")
          => (pc' = "returned" /\ result' = None)]_vars

(* C5 as amended: a cancel event ends the session by ending the process    *)
(* (or by a panic when the cleanup write fails): nothing is yielded, and   *)
(* whenever run() has returned to its caller the result is a selected text.*)
C5_CancelExitsProcess ==
    [][/\ (Running /\ key' = "Cancel")
            => (pc' \in {"exited", "panicked"} /\ result' = None)
       /\ pc' = "returned" => result'.some]_vars

(* the process has exited on a cancel event, nothing was yielded *)
C5_Witness == pc = "exited" /\ key = "Cancel" /\ result = None

(* C6: while a session runs, a frame is rendered at least once per refresh *)
(* interval, whether or not a key is pressed.                              *)
C6_RenderedEveryInterval == InLoop => since_render <= render_interval

(* C7: when a session has ended, raw mode was restored exactly once and    *)
(* the alternate screen was left exactly once.                             *)
C7_ReleasedExactlyOnce == Ended => (raw_restored = 1 /\ main_screen = 1)

(* C8: the cursor position stays within [0, number of characters of the    *)
(* query].                                                                 *)
C8_CursorWithinQueryChars == cursor_pos \in 0..Len(query)

(* a query change takes Beta, the selected item, out of the view of Repos3 *)
BetaDropped ==
    /\ Running
    /\ pc' = "running"
    /\ items = Repos3
    /\ filtered_items # << >>
    /\ At0(filtered_items, selected_index) = Beta
    /\ query' # query
    /\ Beta \notin Range(filtered_items')

(* C9 as stated: when a query change removes the selected item ("beta" of  *)
(* alpha, alphabet, beta) from the view, the selection becomes 0.          *)
C9_ClampedToZero == [][BetaDropped => selected_index' = 0]_vars

(* C9 as amended: when a query change removes the selected item "beta"     *)
(* from the view of alpha, alphabet, beta, the selection becomes the last  *)
(* index of the new view (1 on alpha, alphabet; 0 only for an empty view), *)
(* and the view for the query "alp" is alpha, alphabet in that order.      *)
C9_ClampedToLast ==
    [][/\ BetaDropped => selected_index' = Max(Len(filtered_items') - 1, 0)
       /\ (items' = Repos3 /\ query' = <<"a", "l", "p">>)
             => filtered_items' = <<Alpha, Alphabet>>]_vars

(* "alp" was typed with the selection on beta: the view is alpha, alphabet *)
(* and the selection is on alphabet                                        *)
C9_Witness ==
    /\ items = Repos3
    /\ key = "Char"
    /\ query = <<"a", "l", "p">>
    /\ filtered_items = <<Alpha, Alphabet>>
    /\ selected_index = 1

(* C10: Enter on a non-empty view ends the session and run() returns the   *)
(* text of filtered_items[selected_index] as it was when Enter arrived     *)
(* (unless the cleanup write fails, which is a panic).                     *)
C10_ConfirmYieldsSelected ==
    [][(Running /\ key' = "Enter" /\ filtered_items # << >>)
          => \/ pc' = "panicked"
             \/ /\ pc' = "returned"
                /\ result' = Some(At0(filtered_items, selected_index))]_vars

(* run() has returned an item that is not the first of the view *)
C10_Witness ==
    /\ pc = "returned"
    /\ key = "Enter"
    /\ selected_index > 0
    /\ result = Some(At0(filtered_items, selected_index))

----------------------------------------------------------------------------
(* The session on terminals of any size, the degenerate ones included:     *)
(* every render reads a size of SmallSizes.                                *)

RunSized ==
    /\ \E size \in SmallSizes, setup \in {"ok", "raw_fails", "alt_fails"},
          ok \in BOOLEAN :
          Setup(size, setup, ok, "running")
    /\ UNCHANGED <<outside, since_render>>

RefreshSized ==
    /\ Running
    /\ key' = "none"
    /\ UNCHANGED <<finder, outside, since_render>>
    /\ \E size \in SmallSizes, ok \in BOOLEAN : Rerender(size, ok, "running")

KeySized ==
    /\ Running
    /\ \E k \in TimedKeys, size \in SmallSizes, cleanup_ok \in BOOLEAN,
          ok \in BOOLEAN :
          Dispatch(k, size, cleanup_ok, ok, "running")
    /\ UNCHANGED <<outside, since_render>>

NextSized ==
    \/ RunSized
    \/ RefreshSized
    \/ KeySized

SpecSized == Init /\ [][NextSized]_vars

----------------------------------------------------------------------------
(* Sessions in which the only key is Down, on lists of 3, 12 and 20 items. *)

DownLists == {Repos3, LongList, Twenty}

InitDown == InitWith(DownLists)

NextDown ==
    \/ Run
    \/ Refresh
    \/ KeyDown

SpecDown == InitDown /\ [][NextDown]_vars

----------------------------------------------------------------------------
(* formatter.rs: strings are sequences of characters.                      *)

Lock == "U+1F512"

Whitespace == {" ", "\t", "\n"}

Names == {<<"r">>, <<"a", "p", "i">>}

Descriptions ==
    {<< >>, <<" ">>, <<" ", "\t">>, <<"d">>, <<" ", "d", " ">>,
     <<"a", " ", "b">>, <<"\n", "a", " ", "b">>}

Sources == {"GitHub", "GitLab"}

RECURSIVE trim_start(_)
trim_start(d) ==
    IF d # << >> /\ Head(d) \in Whitespace THEN trim_start(Tail(d)) ELSE d

RECURSIVE trim_end(_)
trim_end(d) ==
    IF d # << >> /\ d[Len(d)] \in Whitespace
    THEN trim_end(SubSeq(d, 1, Len(d) - 1))
    ELSE d

(* str::trim *)
trim(d) == trim_end(trim_start(d))

(* formatter::format_repo_name *)
format_repo_name(name, is_fork, is_private, source) ==
    LET private_icon == IF is_private THEN <<" ", Lock>> ELSE << >>
        source_icon == IF source = "GitHub"
                       THEN <<" ", "[", "G", "H", "]">>
                       ELSE <<" ", "[", "G", "L", "]">>
    IN  name \o private_icon \o source_icon

(* formatter::format_repository *)
format_repository(name, description, is_fork, is_private, source) ==
    LET formatted_name == format_repo_name(name, is_fork, is_private, source)
    IN  IF is_fork
        THEN IF description = << >>
             THEN formatted_name \o <<" ", "(", "f", "o", "r", "k", ")">>
             ELSE formatted_name \o <<" ", "(", "f", "o", "r", "k", ":", " ">>
                                 \o trim(description) \o <<")">>
        ELSE IF description = << >>
             THEN formatted_name
             ELSE formatted_name \o <<" ", "(">> \o trim(description) \o <<")">>

(* one call of format_repository *)
FormatRepository ==
    /\ \E name \in Names, description \in Descriptions, is_fork \in BOOLEAN,
          is_private \in BOOLEAN, source \in Sources :
          formatted' = [name |-> name, description |-> description,
                        is_fork |-> is_fork, is_private |-> is_private,
                        source |-> source,
                        out |-> format_repository(name, description, is_fork,
                                                  is_private, source)]
    /\ UNCHANGED <<finder, pc, result, terminal, height, key, frame,
                   overflow_checks, since_render>>

NextFormat == FormatRepository

SpecFormat == Init /\ [][NextFormat]_vars

----------------------------------------------------------------------------
(* C11: a confirm (Enter) while the filtered view is empty is a no-op: the  *)
(* session does not end by it and yields nothing, and the item list, the   *)
(* filtered view, the query, the cursor, the selection and the scroll      *)
(* offset are as before (no newline goes into the query).  Only a failure  *)
(* of the re-render that follows the key can stop the session.             *)
C11_ConfirmOnEmptyIsNoOp ==
    [][(Running /\ filtered_items = << >> /\ key' = "Enter")
          => /\ UNCHANGED finder
             /\ result' = None
             /\ pc' \in {"running", "panicked"}]_vars

(* Enter was pressed on an empty view under a query, and the session goes on *)
C11_Witness ==
    /\ key = "Enter"
    /\ pc = "running"
    /\ filtered_items = << >>
    /\ query # << >>

(* the page size the frame has room for: the height less the five reserved *)
(* rows (two status rows, the count line, the prompt line and one more)    *)
page_size(h) == Max(h - 5, 0)

(* C12: rendering never fails because of the terminal size: on every width *)
(* and height render completes, and on a terminal too small for the        *)
(* reserved rows (fewer than 5 rows) it draws no item row and puts the     *)
(* status area on the top row.                                             *)
C12_RenderSurvivesAnySize ==
    /\ frame.outcome # "panic"
    /\ (frame.outcome = "drawn" /\ frame.h < 5)
          => (frame.count = 0 /\ frame.status_pos = 1)

(* C13: in every frame the item rows drawn are the filtered view's indices *)
(* from scroll_offset on, min(page_size, len - scroll_offset) of them with *)
(* page_size = max(H - 5, 0): never more than H - 5 rows, none in the five *)
(* reserved rows at the bottom.                                            *)
C13_RowsFillThePageOnly ==
    (pc = "running" /\ frame.outcome = "drawn")
       => /\ frame.first = scroll_offset
          /\ frame.count = Min(page_size(frame.h),
                               Len(filtered_items) - scroll_offset)

(* C17: item truncation.  With an available width a >= 1 (the width less   *)
(* 7), an item of more than a characters is drawn as a characters: its     *)
(* first a - 1 characters and one ellipsis; an item of at most a           *)
(* characters is drawn as it is.                                           *)
C17_TruncatedToWidth ==
    (pc = "running" /\ frame.outcome = "drawn" /\ frame.w - 7 >= 1)
       => \A i \in 1..Len(frame.texts) :
             LET item == filtered_items[frame.first + i]
                 text == frame.texts[i]
                 a == frame.w - 7
             IN  IF Len(item) > a
                 THEN /\ Len(text) = a
                      /\ SubSeq(text, 1, a - 1) = SubSeq(item, 1, a - 1)
                      /\ text[a] = Ellipsis
                 ELSE text = item

(* a frame 9 columns wide shows "alp" cut to 2 characters and, on another   *)
(* row, an item that fits                                                  *)
C17_Witness ==
    /\ pc = "running"
    /\ frame.outcome = "drawn"
    /\ frame.w = 9
    /\ \E i \in 1..Len(frame.texts) :
          /\ filtered_items[frame.first + i] = <<"a", "l", "p">>
          /\ frame.texts[i] = <<"a", Ellipsis>>
    /\ \E i \in 1..Len(frame.texts) :
          frame.texts[i] = filtered_items[frame.first + i]

C15_UpdateItemsIdempotent ==
    [][(pc \in {"idle", "returned"} /\ pc' = pc)
          => /\ items' = items
                  => UNCHANGED <<selected_index, scroll_offset, filtered_items>>
             /\ selected_index >= Len(filtered_items')
                  => selected_index' = Max(Len(filtered_items') - 1, 0)]_vars

(* after a session that ended on the third item or lower, update_items has *)
(* been called and the selection stands on the last item of the view       *)
C15_Witness ==
    /\ pc = "returned"
    /\ key = "none"
    /\ selected_index >= 2
    /\ selected_index = Len(filtered_items) - 1

(* C16: format_repository trims the description before it uses it.  The    *)
(* result is the name, " <lock>" if private, " [GH]" or " [GL]" by source  *)
(* (whatever the fork flag), and then: for a description that is empty     *)
(* once trimmed, " (fork)" for a fork and nothing for a non-fork; for any  *)
(* other description with trimmed text t, " (fork: t)" for a fork and      *)
(* " (t)" for a non-fork.                                                  *)
C16_DescriptionTrimmedFirst ==
    formatted # NotFormatted
       => LET t == trim(formatted.description)
              head == formatted.name
                        \o (IF formatted.is_private THEN <<" ", Lock>> ELSE << >>)
                        \o (IF formatted.source = "GitHub"
                            THEN <<" ", "[", "G", "H", "]">>
                            ELSE <<" ", "[", "G", "L", "]">>)
              suffix == IF t = << >>
                        THEN IF formatted.is_fork
                             THEN <<" ", "(", "f", "o", "r", "k", ")">>
                             ELSE << >>
                        ELSE IF formatted.is_fork
                             THEN <<" ", "(", "f", "o", "r", "k", ":", " ">>
                                     \o t \o <<")">>
                             ELSE <<" ", "(">> \o t \o <<")">>
          IN  formatted.out = head \o suffix

(* C18: the selection moves never wrap and never act on an empty view.  Up *)
(* at Selection = 0, Down at the last index, and either key on an empty    *)
(* view leave selected_index and scroll_offset as they are; any other move *)
(* changes Selection by exactly one, and ScrollOffset changes only when    *)
(* the new Selection is outside [ScrollOffset, ScrollOffset + page_size),  *)
(* page_size being that of the frame on the terminal, and then to the      *)
(* nearest offset that shows the selection.                                *)
C18_MovesNeverWrap ==
    [][(Running /\ key' \in {"Up", "Down"})
          => LET n == Len(filtered_items)
                 p == page_size(height)
                 blocked == \/ n = 0
                            \/ key' = "Up" /\ selected_index = 0
                            \/ key' = "Down" /\ selected_index = n - 1
             IN  IF blocked
                 THEN UNCHANGED <<selected_index, scroll_offset>>
                 ELSE /\ selected_index' = IF key' = "Up"
                                           THEN selected_index - 1
                                           ELSE selected_index + 1
                      /\ scroll_offset' # scroll_offset
                           => /\ \/ selected_index' < scroll_offset
                                 \/ selected_index' >= scroll_offset + p
                              /\ scroll_offset' =
                                    IF selected_index' < scroll_offset
                                    THEN selected_index'
                                    ELSE selected_index' - p + 1]_vars

(* C19: Left, Right, Home and End change only the cursor position: the     *)
(* query, the item list, the filtered view, the selection and the scroll   *)
(* offset stay (no filter is recomputed); Left at position 0 and Right at  *)
(* the end of the query leave the cursor where it is too.                  *)
C19_CursorKeysMoveOnlyCursor ==
    [][(Running /\ key' \in {"Left", "Right", "Home", "End"})
          => /\ UNCHANGED <<items, filtered_items, query, selected_index,
                            scroll_offset>>
             /\ (key' = "Left" /\ cursor_pos = 0) => cursor_pos' = cursor_pos
             /\ (key' = "Right" /\ cursor_pos = ByteLen(query))
                  => cursor_pos' = cursor_pos]_vars

(* Home was pressed under a query with the selection below the first row *)
C19_Witness ==
    /\ key = "Home"
    /\ pc = "running"
    /\ query # << >>
    /\ cursor_pos = 0
    /\ selected_index > 0

(* C20: whatever keys are pressed, multi-byte characters among the typed   *)
(* ones, the stored cursor position is an index at a character boundary of *)
(* the query (so that no later insert, Backspace, Delete or render of the  *)
(* query line aborts the session).                                         *)
C20_CursorOnCharBoundary == IsCharBoundary(query, cursor_pos)

(* C21: in every reachable state, whatever size the terminal has,          *)
(* scroll_offset <= selected_index < scroll_offset + max_display, with     *)
(* max_display the constant 10, and scroll_offset <= len(filtered_items);  *)
(* so the rows a frame draws, scroll_offset..end_idx, lie inside           *)
(* filtered_items and end_idx - scroll_offset does not underflow.          *)
C21_WindowOfMaxDisplay ==
    /\ scroll_offset <= selected_index
    /\ selected_index < scroll_offset + max_display
    /\ scroll_offset <= Len(filtered_items)
    /\ (pc = "running" /\ frame.outcome = "drawn")
          => /\ frame.first = scroll_offset
             /\ frame.count = Len(frame.texts)
             /\ frame.first + frame.count <= Len(filtered_items)

(* Up has brought the selection to the first row of a window that does not *)
(* start at the top of the view, and the frame was drawn from there        *)
C21_Witness ==
    /\ pc = "running"
    /\ key = "Up"
    /\ scroll_offset > 0
    /\ selected_index = scroll_offset
    /\ frame.outcome = "drawn"
    /\ frame.first = scroll_offset
    /\ frame.count > 0

============================================================================
